---------------------------- MODULE Spec2Model ----------------------------
(***************************************************************************)
(* Model of the rover command session controller (src/app.js, class        *)
(* RoverController): the BLE link lifecycle (connect / disconnect / link   *)
(* loss), the command throttle, the command dispatch over the GATT         *)
(* characteristic and the session statistics.                              *)
(*                                                                         *)
(* JavaScript runs one task at a time.  An async function runs until an    *)
(* await on a promise of the transport, and its continuation runs, with    *)
(* every continuation chained behind it, as one step when that promise     *)
(* settles.  Every action below is one such run-to-completion step.        *)
(*                                                                         *)
(* The transport is Web Bluetooth: one BluetoothDevice (the rover) whose   *)
(* gatt.connected flag is gattConnected.  A GATT operation that is pending *)
(* when the server disconnects can only reject afterwards (the             *)
(* connection-checking wrapper of the Web Bluetooth API): such promises    *)
(* are marked doomed.                                                      *)
(*                                                                         *)
(* Spec is the whole controller under every interleaving of its events.    *)
(* SpecReconnect follows a bounded history of Spec by one undisturbed      *)
(* connect(); SpecJoystick and SpecSpeed exercise the joystick mapping and *)
(* the speed conversion over their input ranges.                           *)
(***************************************************************************)
EXTENDS Integers, Sequences, FiniteSets, TLC

VARIABLES
    device,               \* this.device: NoDevice or Rover
    characteristic,       \* this.characteristic: NoChar or Char
    isConnected,          \* this.isConnected
    currentSpeed,         \* this.currentSpeed (percent)
    currentDirection,     \* this.currentDirection (label)
    commandCount,         \* this.commandCount
    connectionStartTime,  \* this.connectionStartTime: NoTime or a timestamp
    joystickActive,       \* this.joystickActive
    lastCommand,          \* this.lastCommand
    lastCommandTime,      \* this.lastCommandTime
    now,                  \* Date.now()
    gattConnected,        \* device.gatt.connected of the rover
    hasListener,          \* a gattserverdisconnected listener is on the rover
    connects,             \* connect() calls in flight: <<[pc, doomed]>>
    writes,               \* writeValue promises in flight: <<[cmd, origin, doomed]>>
    steps,                \* events the run may still handle
    wlog,                 \* history: writeValue calls of the current session
    acceptLog,            \* history: the last two acceptances of the throttle
    quiet,                \* history: only disconnect() since the session got Active
    sent                  \* history: the commands whose write has succeeded

vars == <<device, characteristic, isConnected, currentSpeed, currentDirection,
          commandCount, connectionStartTime, joystickActive, lastCommand,
          lastCommandTime, now, gattConnected, hasListener, connects, writes,
          steps, wlog, acceptLog, quiet, sent>>

appVars == <<device, characteristic, isConnected, currentDirection, commandCount>>

-----------------------------------------------------------------------------
commandDelay == 100  \* this.commandDelay

(* Bounds of the model *)

MaxConnects == 2     \* connect() calls in flight at once
MaxWrites == 2       \* writes in flight beyond which no input event writes
MaxLog == 2          \* writes in a session beyond which no input event writes
MaxTicks == 2        \* ticks of the clock
MaxSteps == 13       \* events in a run
MaxHistory == 10     \* events before a reconnection
MaxMoves == 5        \* events of the joystick alone
MaxSlides == 1       \* events of the speed slider alone

TickStep == commandDelay          \* granularity of the clock
StartTime == 10 * commandDelay    \* Date.now() at construction

(* Program constants *)

threshold == 30      \* joystick dead zone
maxRadius == 80      \* this.maxRadius
InitialSpeed == 50   \* this.currentSpeed
NoTime == -1         \* connectionStartTime = null

NoDevice == "null"
Rover == "ESP32-Rover"
NoChar == "null"
Char == "ffe1"

(* Inputs the environment draws from *)
ButtonCmds == {"F"}
SpeedInputs == {50}
Percents == 0..100        \* the positions of the speed slider
JoyVectors == {<<0, 0>>, <<0, -60>>}

\* The displacements and the values of this.maxRadius (half the width of the
\* joystick base less 50) of the joystick mapping: the origin, the axes, the
\* four diagonals inside and outside the radius, the edge of the dead zone
JoyCoords == {-71, -30, -24, -18, 0, 18, 24, 30, 71}
JoyGrid == JoyCoords \X JoyCoords
Radii == {80, 100}
LossyRadii == {100}

Origins == {"joystick", "release", "button", "speed", "estop", "disconnect"}
InputOrigins == Origins \ {"disconnect"}

-----------------------------------------------------------------------------
(* Pure helpers *)

\* the conversion that truncates
SpeedByte_Truncated(percent) == (percent * 255) \div 100

\* Math.round((percent / 100) * 255): Math.round rounds halves up, and for
\* every integer percent of 0..100 the double (percent / 100) * 255 rounds as
\* the exact quotient does (the halves 25.5, 76.5, 127.5, 178.5 and 229.5
\* are computed exactly)
SpeedByte(percent) == (percent * 255 * 2 + 100) \div 200

\* `SPEED:${speed}`
SpeedCommand(percent) == "SPEED:" \o ToString(SpeedByte(percent))

\* The sector tests of handleJoystickMove on an angle that is exactly
\* atan2(dy, dx) in degrees: [-45, 45) is dx > 0 with -dx <= dy < dx, and so on
AngleSector(dx, dy) ==
    IF dx > 0 /\ -dx <= dy /\ dy < dx THEN "R"
    ELSE IF dy > 0 /\ -dy < dx /\ dx <= dy THEN "B"
    ELSE IF dy < 0 /\ dy <= dx /\ dx < -dy THEN "F"
    ELSE "L"

\* The displacement is clamped: distance > this.maxRadius
Clamped(dx, dy, radius) == dx * dx + dy * dy > radius * radius

\* The angle is taken from the clamped vector (cos(a) * maxRadius,
\* sin(a) * maxRadius).  In IEEE-754 doubles cos(pi/4) = 0.7071067811865476
\* and sin(pi/4) = 0.7071067811865475; for the radii of LossyRadii the two
\* products differ, and atan2 of them is 44.99999999999999 degrees.  The
\* other three diagonals and every vector off the diagonals keep their sector.
ClampLosesBoundary(dx, dy, radius) ==
    Clamped(dx, dy, radius) /\ dx = dy /\ dx > 0 /\ radius \in LossyRadii

\* handleJoystickMove: the command chosen for displacement (dx, dy) when
\* this.maxRadius is radius
DirectionAt(dx, dy, radius) ==
    IF dx * dx + dy * dy < threshold * threshold THEN "S"
    ELSE IF ClampLosesBoundary(dx, dy, radius) THEN "R"
    ELSE AngleSector(dx, dy)

\* handleJoystickMove with the maxRadius of the constructor
JoyDirection(dx, dy) == DirectionAt(dx, dy, maxRadius)

\* updateDirection: the label shown for a command
UpdateDirection(cmd) ==
    CASE cmd = "F" -> "Forward"
      [] cmd = "B" -> "Backward"
      [] cmd = "L" -> "Left"
      [] cmd = "R" -> "Right"
      [] OTHER -> "Stopped"

\* the acceptance test that looks at the time only
ThrottleAccepts_TimeOnly(cmd, t) == (t - lastCommandTime) > commandDelay

\* the acceptance test with the window closed one millisecond early
ThrottleAccepts_Inclusive(cmd, t) ==
    cmd # lastCommand \/ (t - lastCommandTime) >= commandDelay

\* sendCommandThrottled: the acceptance test
ThrottleAccepts(cmd, t) ==
    cmd # lastCommand \/ (t - lastCommandTime) > commandDelay

\* the guard without its test of isConnected
CanSend_CharOnly == characteristic # NoChar

\* sendCommand: the guard in front of the write
CanSend == isConnected /\ characteristic # NoChar

RemoveAt(s, i) == SubSeq(s, 1, i - 1) \o SubSeq(s, i + 1, Len(s))

Doom(s) == [i \in 1..Len(s) |-> [s[i] EXCEPT !.doomed = TRUE]]

Last2(s) == IF Len(s) <= 2 THEN s ELSE SubSeq(s, Len(s) - 1, Len(s))

Motion == {"F", "B", "L", "R", "S"}

\* sent: the last command and the last Motion command written with success
\* in the current session, and whether an earlier session wrote any
NoneSent == [last |-> "", motion |-> "", earlier |-> FALSE]

-----------------------------------------------------------------------------
\* The state the constructor leaves
Constructed ==
    /\ device = NoDevice
    /\ characteristic = NoChar
    /\ isConnected = FALSE
    /\ currentSpeed = InitialSpeed
    /\ currentDirection = "STOP"
    /\ commandCount = 0
    /\ connectionStartTime = NoTime
    /\ joystickActive = FALSE
    /\ lastCommand = ""
    /\ lastCommandTime = 0
    /\ now = StartTime
    /\ gattConnected = FALSE
    /\ hasListener = FALSE
    /\ connects = <<>>
    /\ writes = <<>>
    /\ wlog = <<>>
    /\ acceptLog = <<>>
    /\ quiet = FALSE
    /\ sent = NoneSent

Init == Constructed /\ steps = MaxSteps

\* One more event is handled
Step == steps > 0 /\ steps' = steps - 1

\* The clock advances between tasks
Tick ==
    /\ Step
    /\ now < StartTime + MaxTicks * TickStep
    /\ now' = now + TickStep
    /\ UNCHANGED <<device, characteristic, isConnected, currentSpeed,
                   currentDirection, commandCount, connectionStartTime,
                   joystickActive, lastCommand, lastCommandTime, gattConnected,
                   hasListener, connects, writes, wlog, acceptLog, quiet,
                   sent>>

-----------------------------------------------------------------------------
(* sendCommand, up to its await: the guard, then writeValue is called *)

\* The input events the environment produces are bounded; disconnect() is not
InputAllowed(origin) ==
    origin \in InputOrigins /\ CanSend
        => Len(writes) < MaxWrites /\ Len(wlog) < MaxLog

SendCommand(cmd, origin, throttled) ==
    /\ InputAllowed(origin)
    /\ IF CanSend
       THEN /\ writes' = Append(writes, [cmd |-> cmd, origin |-> origin,
                                         doomed |-> ~gattConnected])
            /\ wlog' = Append(wlog, [cmd |-> cmd, origin |-> origin,
                                     throttled |-> throttled])
       ELSE UNCHANGED <<writes, wlog>>

\* the history of successful writes
Written(cmd) ==
    [sent EXCEPT !.last = cmd,
                 !.motion = IF cmd \in Motion THEN cmd ELSE @]

NewSession ==
    [last |-> "", motion |-> "", earlier |-> sent.earlier \/ sent.last # ""]

\* the counter incremented in the catch block too
CountAfter_Always(ok) == commandCount + 1

\* sendCommand after its await: the statistics once the write has settled
CountAfter(ok) == IF ok THEN commandCount + 1 ELSE commandCount

LabelAfter(ok, cmd) == IF ok THEN UpdateDirection(cmd) ELSE currentDirection

\* onDisconnected without the reset of the counter
OnDisconnected_KeepsCount ==
    /\ isConnected' = FALSE
    /\ characteristic' = NoChar
    /\ device' = NoDevice
    /\ currentDirection' = UpdateDirection("S")
    /\ commandCount' = commandCount

\* onDisconnected
OnDisconnected ==
    /\ isConnected' = FALSE
    /\ characteristic' = NoChar
    /\ device' = NoDevice
    /\ currentDirection' = UpdateDirection("S")
    /\ commandCount' = 0

-----------------------------------------------------------------------------
(* Input events *)

\* touchstart or click on an arrow button
Button(c) ==
    /\ Step
    /\ SendCommand(c, "button", FALSE)
    /\ quiet' = FALSE
    /\ UNCHANGED <<device, characteristic, isConnected, currentSpeed,
                   currentDirection, commandCount, connectionStartTime,
                   joystickActive, lastCommand, lastCommandTime, now,
                   gattConnected, hasListener, connects, acceptLog, sent>>

\* input on the speed slider
SpeedInput(p) ==
    /\ Step
    /\ currentSpeed' = p
    /\ SendCommand(SpeedCommand(p), "speed", FALSE)
    /\ quiet' = FALSE
    /\ UNCHANGED <<device, characteristic, isConnected, currentDirection,
                   commandCount, connectionStartTime, joystickActive,
                   lastCommand, lastCommandTime, now, gattConnected, hasListener,
                   connects, acceptLog, sent>>

\* click on the emergency stop
EmergencyStop ==
    /\ Step
    /\ SendCommand("S", "estop", FALSE)
    /\ quiet' = FALSE
    /\ UNCHANGED <<device, characteristic, isConnected, currentSpeed,
                   currentDirection, commandCount, connectionStartTime,
                   joystickActive, lastCommand, lastCommandTime, now,
                   gattConnected, hasListener, connects, acceptLog, sent>>

\* touchstart or mousedown on the joystick
JoystickStart ==
    /\ Step
    /\ joystickActive' = TRUE
    /\ quiet' = FALSE
    /\ UNCHANGED <<device, characteristic, isConnected, currentSpeed,
                   currentDirection, commandCount, connectionStartTime,
                   lastCommand, lastCommandTime, now, gattConnected, hasListener,
                   connects, writes, wlog, acceptLog, sent>>

\* sendCommandThrottled
SendCommandThrottled(cmd) ==
    IF ThrottleAccepts(cmd, now)
    THEN /\ SendCommand(cmd, "joystick", TRUE)
         /\ lastCommand' = cmd
         /\ lastCommandTime' = now
         /\ acceptLog' = Last2(Append(acceptLog, [cmd |-> cmd, time |-> now]))
    ELSE UNCHANGED <<writes, wlog, lastCommand, lastCommandTime, acceptLog>>

\* touchmove or mousemove while the joystick is held: handleJoystickMove
JoystickMoveAt(v, radius) ==
    /\ Step
    /\ joystickActive
    /\ SendCommandThrottled(DirectionAt(v[1], v[2], radius))
    /\ quiet' = FALSE
    /\ UNCHANGED <<device, characteristic, isConnected, currentSpeed,
                   currentDirection, commandCount, connectionStartTime,
                   joystickActive, now, gattConnected, hasListener, connects,
                   sent>>

JoystickMove(v) == JoystickMoveAt(v, maxRadius)

\* resetJoystick that records its Stop in the throttle state
ResetJoystick_Recorded ==
    /\ Step
    /\ SendCommand("S", "release", FALSE)
    /\ lastCommand' = "S"
    /\ lastCommandTime' = now
    /\ quiet' = FALSE
    /\ UNCHANGED <<device, characteristic, isConnected, currentSpeed,
                   currentDirection, commandCount, connectionStartTime,
                   now, gattConnected, hasListener, connects, acceptLog, sent>>

\* resetJoystick
ResetJoystick ==
    /\ Step
    /\ SendCommand("S", "release", FALSE)
    /\ quiet' = FALSE
    /\ UNCHANGED <<device, characteristic, isConnected, currentSpeed,
                   currentDirection, commandCount, connectionStartTime,
                   lastCommand, lastCommandTime, now, gattConnected, hasListener,
                   connects, acceptLog, sent>>

\* touchend on the joystick
TouchEnd ==
    /\ joystickActive' = FALSE
    /\ ResetJoystick

\* mouseup anywhere while the joystick is held
MouseUp ==
    /\ joystickActive
    /\ joystickActive' = FALSE
    /\ ResetJoystick

-----------------------------------------------------------------------------
(* connect(): one step per await *)

Await(pc, doomed) == [pc |-> pc, doomed |-> doomed]

GattSteps == {"getService", "getChar", "startNotif"}

\* The awaits of connect(), and the events of one attempt: the call and one
\* settlement for each await
ConnectSteps == {"requestDevice", "gattConnect"} \cup GattSteps

HandshakeLen == Cardinality(ConnectSteps) + 1

\* The promises a disconnection of the GATT server rejects
DoomConnects(pcs) ==
    [i \in 1..Len(connects) |->
        IF connects[i].pc \in pcs THEN Await(connects[i].pc, TRUE)
        ELSE connects[i]]

\* connect() behind a guard that a failed attempt leaves closed
Connect_WhenNoDevice ==
    /\ Step
    /\ device = NoDevice
    /\ Len(connects) < MaxConnects
    /\ connects' = Append(connects, Await("requestDevice", FALSE))
    /\ quiet' = FALSE
    /\ UNCHANGED <<device, characteristic, isConnected, currentSpeed,
                   currentDirection, commandCount, connectionStartTime,
                   joystickActive, lastCommand, lastCommandTime, now,
                   gattConnected, hasListener, writes, wlog, acceptLog, sent>>

\* click on the connect button: connect() up to requestDevice
Connect ==
    /\ Step
    /\ Len(connects) < MaxConnects
    /\ connects' = Append(connects, Await("requestDevice", FALSE))
    /\ quiet' = FALSE
    /\ UNCHANGED <<device, characteristic, isConnected, currentSpeed,
                   currentDirection, commandCount, connectionStartTime,
                   joystickActive, lastCommand, lastCommandTime, now,
                   gattConnected, hasListener, writes, wlog, acceptLog, sent>>

\* requestDevice resolves: this.device is set and gatt.connect() is called
DeviceChosen(i) ==
    /\ Step
    /\ connects[i].pc = "requestDevice"
    /\ device' = Rover
    /\ connects' = [connects EXCEPT ![i] = Await("gattConnect", FALSE)]
    /\ quiet' = FALSE
    /\ UNCHANGED <<characteristic, isConnected, currentSpeed, currentDirection,
                   commandCount, connectionStartTime, joystickActive,
                   lastCommand, lastCommandTime, now, gattConnected, hasListener,
                   writes, wlog, acceptLog, sent>>

\* gatt.connect() resolves: getPrimaryService is called
GattConnected(i) ==
    /\ Step
    /\ connects[i] = Await("gattConnect", FALSE)
    /\ gattConnected' = TRUE
    /\ connects' = [connects EXCEPT ![i] = Await("getService", FALSE)]
    /\ quiet' = FALSE
    /\ UNCHANGED <<device, characteristic, isConnected, currentSpeed,
                   currentDirection, commandCount, connectionStartTime,
                   joystickActive, lastCommand, lastCommandTime, now, hasListener,
                   writes, wlog, acceptLog, sent>>

\* getPrimaryService resolves: getCharacteristic is called
ServiceFound(i) ==
    /\ Step
    /\ connects[i] = Await("getService", FALSE)
    /\ connects' = [connects EXCEPT ![i] = Await("getChar", FALSE)]
    /\ quiet' = FALSE
    /\ UNCHANGED <<device, characteristic, isConnected, currentSpeed,
                   currentDirection, commandCount, connectionStartTime,
                   joystickActive, lastCommand, lastCommandTime, now,
                   gattConnected, hasListener, writes, wlog, acceptLog, sent>>

\* getCharacteristic resolves: this.characteristic is set and
\* startNotifications is called
CharacteristicFound(i) ==
    /\ Step
    /\ connects[i] = Await("getChar", FALSE)
    /\ characteristic' = Char
    /\ connects' = [connects EXCEPT ![i] = Await("startNotif", FALSE)]
    /\ quiet' = FALSE
    /\ UNCHANGED <<device, isConnected, currentSpeed, currentDirection,
                   commandCount, connectionStartTime, joystickActive,
                   lastCommand, lastCommandTime, now, gattConnected, hasListener,
                   writes, wlog, acceptLog, sent>>

\* The rest of connect() throws a TypeError on this.characteristic or on
\* this.device when onDisconnected has cleared it during the await
ListenersThrow == characteristic = NoChar \/ device = NoDevice

\* startNotifications resolves: the listeners are added, the session is Active
NotificationsStarted(i) ==
    /\ Step
    /\ connects[i] = Await("startNotif", FALSE)
    /\ connects' = RemoveAt(connects, i)
    /\ IF ListenersThrow
       THEN /\ quiet' = FALSE
            /\ UNCHANGED <<isConnected, connectionStartTime, hasListener, wlog,
                           sent>>
       ELSE /\ hasListener' = TRUE
            /\ isConnected' = TRUE
            /\ connectionStartTime' = now
            /\ wlog' = IF isConnected THEN wlog ELSE <<>>
            /\ quiet' = ~isConnected
            /\ sent' = IF isConnected THEN sent ELSE NewSession
    /\ UNCHANGED <<device, characteristic, currentSpeed, currentDirection,
                   commandCount, joystickActive, lastCommand, lastCommandTime,
                   now, gattConnected, writes, acceptLog>>

\* An awaited step of connect() rejects: the catch block
ConnectFailed(i) ==
    /\ Step
    /\ i \in 1..Len(connects)
    /\ connects' = RemoveAt(connects, i)
    /\ quiet' = FALSE
    /\ UNCHANGED <<device, characteristic, isConnected, currentSpeed,
                   currentDirection, commandCount, connectionStartTime,
                   joystickActive, lastCommand, lastCommandTime, now,
                   gattConnected, hasListener, writes, wlog, acceptLog, sent>>

-----------------------------------------------------------------------------
(* Leaving Active *)

\* A listener that clears the flag only, instead of calling onDisconnected
LinkLoss_FlagOnly ==
    /\ Step
    /\ gattConnected
    /\ gattConnected' = FALSE
    /\ writes' = Doom(writes)
    /\ connects' = DoomConnects(GattSteps)
    /\ isConnected' = (isConnected /\ ~hasListener)
    /\ quiet' = FALSE
    /\ UNCHANGED <<device, characteristic, currentDirection, commandCount,
                   currentSpeed, connectionStartTime, joystickActive,
                   lastCommand, lastCommandTime, now, hasListener, wlog,
                   acceptLog, sent>>

\* The link is lost: gattserverdisconnected is dispatched to the listeners
LinkLoss ==
    /\ Step
    /\ gattConnected
    /\ gattConnected' = FALSE
    /\ writes' = Doom(writes)
    /\ connects' = DoomConnects(GattSteps)
    /\ IF hasListener THEN OnDisconnected ELSE UNCHANGED appVars
    /\ quiet' = FALSE
    /\ UNCHANGED <<currentSpeed, connectionStartTime, joystickActive,
                   lastCommand, lastCommandTime, now, hasListener, wlog, acceptLog, sent>>

\* device.gatt.disconnect(), which dispatches gattserverdisconnected at once,
\* followed by onDisconnected: the tail of disconnect()
TearDown(rest) ==
    /\ gattConnected' = FALSE
    /\ writes' = Doom(rest)
    /\ connects' = DoomConnects(GattSteps \cup {"gattConnect"})
    /\ OnDisconnected

\* The writes in flight that a disconnect() awaits
PendingStops == {i \in 1..Len(writes) : writes[i].origin = "disconnect"}

\* disconnect() that does not await its Stop before tearing down
Disconnect_NoAwait ==
    /\ Step
    /\ IF device # NoDevice /\ gattConnected
       THEN /\ gattConnected' = FALSE
            /\ connects' = DoomConnects(GattSteps \cup {"gattConnect"})
            /\ OnDisconnected
            /\ IF CanSend
               THEN /\ writes' = Doom(Append(writes,
                                   [cmd |-> "S", origin |-> "disconnect",
                                    doomed |-> FALSE]))
                    /\ wlog' = Append(wlog, [cmd |-> "S",
                                   origin |-> "disconnect", throttled |-> FALSE])
               ELSE /\ writes' = Doom(writes)
                    /\ wlog' = wlog
       ELSE /\ OnDisconnected
            /\ UNCHANGED <<gattConnected, connects, writes, wlog>>
    /\ quiet' = (quiet /\ PendingStops = {})
    /\ UNCHANGED <<currentSpeed, connectionStartTime, joystickActive,
                   lastCommand, lastCommandTime, now, hasListener, acceptLog, sent>>

\* click on the disconnect button: disconnect() up to its await
Disconnect ==
    /\ Step
    /\ IF device # NoDevice /\ gattConnected
       THEN IF CanSend
            THEN /\ SendCommand("S", "disconnect", FALSE)
                 /\ UNCHANGED <<appVars, gattConnected, connects>>
            ELSE /\ TearDown(writes)
                 /\ UNCHANGED wlog
       ELSE /\ OnDisconnected
            /\ UNCHANGED <<gattConnected, connects, writes, wlog>>
    /\ quiet' = (quiet /\ PendingStops = {})
    /\ UNCHANGED <<currentSpeed, connectionStartTime, joystickActive,
                   lastCommand, lastCommandTime, now, hasListener, acceptLog, sent>>

-----------------------------------------------------------------------------
(* A writeValue promise settles: the rest of sendCommand, and of disconnect() *)
(* when it is the one that awaits this write                                *)

Settle(i, ok) ==
    /\ Step
    /\ i \in 1..Len(writes)
    /\ ok => ~writes[i].doomed
    /\ sent' = IF ok THEN Written(writes[i].cmd) ELSE sent
    /\ IF writes[i].origin = "disconnect" /\ device # NoDevice
       THEN /\ TearDown(RemoveAt(writes, i))
            /\ quiet' = quiet
       ELSE \* an input's write, or disconnect() throws on this.device.gatt
            /\ writes' = RemoveAt(writes, i)
            /\ commandCount' = CountAfter(ok)
            /\ currentDirection' = LabelAfter(ok, writes[i].cmd)
            /\ quiet' = FALSE
            /\ UNCHANGED <<device, characteristic, isConnected, gattConnected,
                           connects>>
    /\ UNCHANGED <<currentSpeed, connectionStartTime, joystickActive,
                   lastCommand, lastCommandTime, now, hasListener, wlog, acceptLog>>

WriteResolved(i) == Settle(i, TRUE)

WriteRejected(i) == Settle(i, FALSE)

-----------------------------------------------------------------------------
Next ==
    \/ Tick
    \/ \E c \in ButtonCmds : Button(c)
    \/ \E p \in SpeedInputs : SpeedInput(p)
    \/ EmergencyStop
    \/ JoystickStart
    \/ \E v \in JoyVectors : JoystickMove(v)
    \/ TouchEnd
    \/ MouseUp
    \/ Connect
    \/ \E i \in 1..Len(connects) : DeviceChosen(i)
    \/ \E i \in 1..Len(connects) : GattConnected(i)
    \/ \E i \in 1..Len(connects) : ServiceFound(i)
    \/ \E i \in 1..Len(connects) : CharacteristicFound(i)
    \/ \E i \in 1..Len(connects) : NotificationsStarted(i)
    \/ \E i \in 1..Len(connects) : ConnectFailed(i)
    \/ LinkLoss
    \/ Disconnect
    \/ \E i \in 1..Len(writes) : WriteResolved(i)
    \/ \E i \in 1..Len(writes) : WriteRejected(i)

Spec == Init /\ [][Next]_vars
-----------------------------------------------------------------------------
(* The link state of the session, as the specification names it *)

LinkState ==
    IF isConnected THEN "Active"
    ELSE IF connects # <<>> THEN "Connecting"
    ELSE "Disconnected"

LegalEdges ==
    {<<"Disconnected", "Connecting">>, <<"Connecting", "Active">>,
     <<"Connecting", "Disconnected">>, <<"Active", "Disconnected">>}

InputEvent ==
    \/ \E c \in ButtonCmds : Button(c)
    \/ \E p \in SpeedInputs : SpeedInput(p)
    \/ EmergencyStop
    \/ \E v \in JoyVectors : JoystickMove(v)
    \/ TouchEnd
    \/ MouseUp

\* What onDisconnected leaves behind
Cleared ==
    /\ ~isConnected
    /\ characteristic = NoChar
    /\ device = NoDevice
    /\ commandCount = 0
    /\ currentDirection = "Stopped"

-----------------------------------------------------------------------------
(* Reconnection: after any history of at most MaxHistory events, when the  *)
(* session is Disconnected, connect() is called and each of its awaits     *)
(* resolves, with no other event in between                                *)

InitReconnect ==
    Constructed /\ steps \in HandshakeLen..(HandshakeLen + MaxHistory)

Recover ==
    \/ steps = HandshakeLen /\ LinkState = "Disconnected" /\ Connect
    \/ steps < HandshakeLen /\ DeviceChosen(1)
    \/ steps < HandshakeLen /\ GattConnected(1)
    \/ steps < HandshakeLen /\ ServiceFound(1)
    \/ steps < HandshakeLen /\ CharacteristicFound(1)
    \/ steps < HandshakeLen /\ NotificationsStarted(1)

History == steps > HandshakeLen /\ Next

NextReconnect == History \/ Recover

SpecReconnect == InitReconnect /\ [][NextReconnect]_vars

\* a reconnection is due or under way
RecoverDue ==
    \/ steps = HandshakeLen /\ LinkState = "Disconnected"
    \/ 0 < steps /\ steps < HandshakeLen

-----------------------------------------------------------------------------
(* The joystick alone: it is held and moved over JoyGrid, for each of Radii *)

InitJoystick == Constructed /\ steps = MaxMoves

NextJoystick ==
    \/ Tick
    \/ JoystickStart
    \/ \E v \in JoyGrid, radius \in Radii : JoystickMoveAt(v, radius)

SpecJoystick == InitJoystick /\ [][NextJoystick]_vars

-----------------------------------------------------------------------------
(* The speed slider alone: one connect(), and the slider moved over Percents *)

InitSpeed == Constructed /\ steps = HandshakeLen + MaxSlides

NextSpeed ==
    \/ LinkState = "Disconnected" /\ Connect
    \/ \E i \in 1..Len(connects) : DeviceChosen(i)
    \/ \E i \in 1..Len(connects) : GattConnected(i)
    \/ \E i \in 1..Len(connects) : ServiceFound(i)
    \/ \E i \in 1..Len(connects) : CharacteristicFound(i)
    \/ \E i \in 1..Len(connects) : NotificationsStarted(i)
    \/ \E p \in Percents : SpeedInput(p)

SpecSpeed == InitSpeed /\ [][NextSpeed]_vars

-----------------------------------------------------------------------------
(* C1: the link state changes only along Disconnected -> Connecting,       *)
(* Connecting -> Active, Connecting -> Disconnected, Active -> Disconnected *)
C1_OnlyLegalEdges ==
    [][LinkState' # LinkState => <<LinkState, LinkState'>> \in LegalEdges]_vars

(* C2: two consecutive acceptances of the throttle for the same command    *)
(* are more than commandDelay apart                                        *)
C2_ThrottleSpacing ==
    Len(acceptLog) = 2 /\ acceptLog[1].cmd = acceptLog[2].cmd
        => acceptLog[2].time - acceptLog[1].time > commandDelay

\* the throttle has accepted the same command twice in a row
C2_Witness ==
    /\ Len(acceptLog) = 2
    /\ acceptLog[1].cmd = acceptLog[2].cmd
    /\ acceptLog[2].time - acceptLog[1].time > commandDelay

(* C3: every write that comes from the joystick, a button or the speed     *)
(* slider was accepted by sendCommandThrottled first                       *)
C3_InputWritesThrottled ==
    \A i \in 1..Len(wlog) :
        wlog[i].origin \in {"joystick", "button", "speed"} => wlog[i].throttled

(* C4: once disconnect() has written its Stop in a session, no command of  *)
(* an input event is written in that session                               *)
C4_StopIsLastWrite ==
    \A i, j \in 1..Len(wlog) :
        i < j /\ wlog[i].origin = "disconnect"
            => wlog[j].origin \notin InputOrigins

(* C5: whenever the session is not connected, commandCount is 0 and no     *)
(* connection start time is recorded                                       *)
C5_StatsResetWhenDisconnected ==
    ~isConnected => commandCount = 0 /\ connectionStartTime = NoTime

(* C6: after a successful connect() followed by disconnect() and nothing   *)
(* else, exactly one Stop was written, it has settled before the transport *)
(* is down, and the session is Disconnected with commandCount 0            *)
C6_ConnectThenDisconnect ==
    /\ quiet /\ ~gattConnected => PendingStops = {}
    /\ quiet /\ ~isConnected =>
        /\ wlog = <<[cmd |-> "S", origin |-> "disconnect", throttled |-> FALSE]>>
        /\ PendingStops = {}
        /\ ~gattConnected
        /\ Cleared

\* connect() succeeded, disconnect() followed and has run to its end
C6_Witness == quiet /\ ~isConnected /\ Len(wlog) = 1

(* C7: sendCommand called while the session is not Active writes nothing   *)
(* and leaves commandCount, the direction label and the connection alone   *)
C7_NotConnectedNoOp ==
    [][(~isConnected \/ characteristic = NoChar) =>
        /\ InputEvent =>
              UNCHANGED <<writes, wlog, commandCount, currentDirection,
                          isConnected, device, characteristic, gattConnected,
                          connects>>
        /\ Disconnect => Len(writes') = Len(writes) /\ wlog' = wlog]_vars

\* the joystick had a command accepted and passed to sendCommand in a
\* session that was never Active, and nothing was written
C7_Witness ==
    /\ lastCommand # ""
    /\ connectionStartTime = NoTime
    /\ ~isConnected
    /\ wlog = <<>>
    /\ writes = <<>>

(* C8: a connect() attempt that fails leaves the session Disconnected with *)
(* commandCount 0                                                          *)
C8_FailedConnectDisconnected ==
    [][(\E i \in 1..Len(connects) : ConnectFailed(i))
          => ~isConnected' /\ commandCount' = 0]_vars

(* C9: when the write of an input event fails while Active, the session    *)
(* stays Active with the same device and characteristic, commandCount is   *)
(* not incremented and nothing is written again                            *)
C9_WriteFailureDropped ==
    [][\A i \in 1..Len(writes) :
          WriteRejected(i) /\ isConnected /\ writes[i].origin \in InputOrigins
              => /\ isConnected'
                 /\ characteristic' = characteristic
                 /\ device' = device
                 /\ commandCount' = commandCount
                 /\ currentDirection' = currentDirection
                 /\ writes' = RemoveAt(writes, i)
                 /\ wlog' = wlog]_vars

\* the only write of the session has failed and the session is still Active
C9_Witness ==
    /\ isConnected
    /\ Len(wlog) = 1
    /\ wlog[1].origin \in InputOrigins
    /\ writes = <<>>
    /\ commandCount = 0

(* C10: every step that takes the session out of Active, a link loss or a  *)
(* disconnect(), ends in the state onDisconnected leaves: not connected,   *)
(* no characteristic, no device, commandCount 0, label Stopped             *)
C10_SameTeardown ==
    [][isConnected /\ ~isConnected' => Cleared' /\ ~gattConnected']_vars

\* a session that wrote a command ended by link loss: no Stop of
\* disconnect() is in its log
C10_Witness ==
    /\ Cleared
    /\ connectionStartTime # NoTime
    /\ Len(wlog) >= 1
    /\ \A i \in 1..Len(wlog) : wlog[i].origin # "disconnect"

(* C11: in a page whose rover has no gattserverdisconnected listener yet   *)
(* (no session was Active before, so only disconnect() can have run        *)
(* onDisconnected), an attempt whose discovery and handshake steps all     *)
(* succeed ends with the session Active                                    *)
C11_DisconnectDoesNotAbort ==
    [][\A i \in 1..Len(connects) :
          NotificationsStarted(i) /\ ~hasListener => isConnected']_vars

(* C12: every step that takes the session into Active records the current  *)
(* time as the connection start time and finds commandCount at 0, also     *)
(* when an earlier session has written commands                            *)
C12_FreshStatsOnActive ==
    [][~isConnected /\ isConnected'
          => connectionStartTime' = now' /\ commandCount' = 0]_vars

\* the session is Active again, later than the page was loaded, after an
\* earlier session whose writes succeeded
C12_Witness ==
    /\ isConnected
    /\ sent.earlier
    /\ sent.last = ""
    /\ now > StartTime
    /\ connectionStartTime = now
    /\ commandCount = 0

(* C13: from every Disconnected state, whatever happened before, connect() *)
(* and the success of each of its awaits can follow, and they leave the    *)
(* session Active                                                          *)
C13_CanReconnect ==
    /\ RecoverDue => ENABLED Recover
    /\ steps = 0 => isConnected /\ gattConnected /\ connects = <<>>

\* the session is Active at the end of a reconnection, and a write that an
\* earlier session lost with its link is still in flight
C13_Witness ==
    /\ steps = 0
    /\ isConnected
    /\ writes # <<>>
    /\ currentDirection = "Stopped"

(* C14: a candidate that differs from lastCommand is accepted whatever the *)
(* time since the last acceptance: it becomes lastCommand, the time is     *)
(* recorded, and it is passed to sendCommand, which writes it when the     *)
(* session is Active                                                       *)
C14_ChangeAlwaysAccepted ==
    [][\A v \in JoyVectors :
          JoystickMove(v) /\ JoyDirection(v[1], v[2]) # lastCommand
              => /\ lastCommand' = JoyDirection(v[1], v[2])
                 /\ lastCommandTime' = now
                 /\ CanSend =>
                      wlog' = Append(wlog, [cmd |-> JoyDirection(v[1], v[2]),
                                            origin |-> "joystick",
                                            throttled |-> TRUE])]_vars

\* two distinct commands were accepted in the same millisecond and both
\* were written
C14_Witness ==
    /\ Len(acceptLog) = 2
    /\ acceptLog[1].cmd # acceptLog[2].cmd
    /\ acceptLog[1].time = acceptLog[2].time
    /\ Len(wlog) = 2
    /\ \A i \in 1..2 : wlog[i].origin = "joystick" /\ wlog[i].cmd = acceptLog[i].cmd

(* C15: the joystick maps every displacement to exactly one command: Stop  *)
(* when the distance is below 30, else Right for an angle in [-45, 45),    *)
(* Backward in [45, 135), Forward in [-135, -45) and Left for the rest,    *)
(* whatever the radius the displacement is clamped to                      *)
C15_SectorsPartition ==
    [][\A v \in JoyGrid, radius \in Radii :
          JoystickMoveAt(v, radius)
              => lastCommand' =
                    IF v[1] * v[1] + v[2] * v[2] < threshold * threshold
                    THEN "S" ELSE AngleSector(v[1], v[2])]_vars

(* C16: for every percent of 0..100 a speed change passes 'SPEED:<v>' to   *)
(* sendCommand, where v is the integer nearest to percent * 255 / 100 with *)
(* halves rounded up; v is within 0..255 and does not decrease as percent  *)
(* grows; 0, 50 and 100 give SPEED:0, SPEED:128 and SPEED:255              *)
C16_SpeedRounded ==
    [][\A p \in Percents :
          SpeedInput(p) /\ CanSend
              => \E v \in 0..255 :
                    /\ 100 * v - 50 <= 255 * p
                    /\ 255 * p < 100 * v + 50
                    /\ wlog' = Append(wlog, [cmd |-> "SPEED:" \o ToString(v),
                                             origin |-> "speed",
                                             throttled |-> FALSE])
                    /\ \A q \in Percents : q <= p => SpeedByte(q) <= v
                    /\ p = 0 => v = 0
                    /\ p = 50 => v = 128
                    /\ p = 100 => v = 255]_vars

\* the slider was moved to 50 in a session: 127.5 was rounded up
C16_Witness ==
    /\ isConnected
    /\ currentSpeed = 50
    /\ wlog = <<[cmd |-> "SPEED:128", origin |-> "speed", throttled |-> FALSE]>>

(* C17: lastCommand and lastCommandTime change only in a step of           *)
(* sendCommandThrottled that accepts its candidate, which becomes          *)
(* lastCommand with the current time; a rejected candidate and every other *)
(* operation leave both unchanged                                          *)
C17_ThrottleStateOwned ==
    [][/\ <<lastCommand, lastCommandTime>>' # <<lastCommand, lastCommandTime>>
          => \E v \in JoyVectors :
                /\ JoystickMove(v)
                /\ ThrottleAccepts(JoyDirection(v[1], v[2]), now)
                /\ lastCommand' = JoyDirection(v[1], v[2])
                /\ lastCommandTime' = now
       /\ \A v \in JoyVectors :
             JoystickMove(v) /\ ~ThrottleAccepts(JoyDirection(v[1], v[2]), now)
                 => UNCHANGED <<lastCommand, lastCommandTime, acceptLog>>]_vars

\* the joystick's Forward was accepted and written, the release wrote its
\* Stop, and the throttle state still holds Forward
C17_Witness ==
    /\ Len(wlog) = 2
    /\ wlog[1] = [cmd |-> "F", origin |-> "joystick", throttled |-> TRUE]
    /\ wlog[2].origin = "release"
    /\ lastCommand = "F"
    /\ ~joystickActive

(* C18: whenever the session is Disconnected and no connect() is in        *)
(* flight, the GATT connection of the rover is closed                      *)
C18_NoLeakedLink == LinkState = "Disconnected" => ~gattConnected

(* C19: when sendCommandThrottled suppresses a candidate while the session *)
(* is Active and no write is in flight, the last command written with      *)
(* success in this session is that candidate                               *)
C19_SuppressedWasLastWritten ==
    [][\A v \in JoyVectors :
          /\ JoystickMove(v)
          /\ isConnected
          /\ writes = <<>>
          /\ ~ThrottleAccepts(JoyDirection(v[1], v[2]), now)
          => sent.last = JoyDirection(v[1], v[2])]_vars

\* The label the page shows for a Motion command
MotionLabel ==
    [c \in Motion |->
        CASE c = "F" -> "Forward"
          [] c = "B" -> "Backward"
          [] c = "L" -> "Left"
          [] c = "R" -> "Right"
          [] c = "S" -> "Stopped"]

(* C20: the direction label, once updateDirection has set it, is that of   *)
(* the last Motion command written with success in the current session,    *)
(* and 'Stopped' when there is none or the session is not Active; a SPEED  *)
(* command leaves it alone                                                 *)
C20_LabelIsLastMotion ==
    currentDirection # "STOP" =>
        currentDirection =
            IF isConnected /\ sent.motion # "" THEN MotionLabel[sent.motion]
            ELSE "Stopped"

=============================================================================
